---- MODULE Spec2Model ----
(***************************************************************************)
(* Model of meshtastic_upgrade.py: release selection (find_release),       *)
(* bundle selection (pick_asset_for_platform), image resolution            *)
(* (resolve_board_image and the interactive prompt of main), and main's    *)
(* download / extract / prepare / flash sequence over the on-disk cache.   *)
(***************************************************************************)
EXTENDS Integers, Sequences, FiniteSets, TLC

VARIABLES
    \* find_release
    releases, previous, alpha, tag, rstatus, found,
    \* pick_asset_for_platform
    assets, platform, astatus, picked,
    \* list_update_bins / resolve_board_image / interactive prompt
    files, images, board, tag_name, ipc, resolved, chosen_path, user_in,
    \* main: the cache directory, and one run of the script after another
    zips, dirs, cache0, last_run, runs, pc, change_mode, dry_run, asset_name,
    downloaded, extracted, chosen, rc1, rc2, executed, exitCode

varsR == <<releases, previous, alpha, tag, rstatus, found>>
varsA == <<assets, platform, astatus, picked>>
varsI == <<files, images, board, tag_name, ipc, resolved, chosen_path, user_in>>
varsC == <<zips, dirs>>
varsM == <<varsC, cache0, last_run, runs, pc, change_mode, dry_run, asset_name,
           downloaded, extracted, chosen, rc1, rc2, executed, exitCode>>
varsO == <<varsR, varsA, varsI>>
vars == <<varsO, varsM>>

(***************************************************************************)
(* Strings.  Python str operations used by the script, on TLA+ strings.    *)
(***************************************************************************)
Char(s, i) == SubSeq(s, i, i)

\* The characters of the model's strings, in code point order.
Alphabet == " -./0123456789ABCDEFGHIJKLMNOPQRSTUVWXYZ_abcdefghijklmnopqrstuvwxyz"

OrdTable ==
    [c \in {Char(Alphabet, i) : i \in 1..Len(Alphabet)} |->
        CHOOSE i \in 1..Len(Alphabet) : Char(Alphabet, i) = c]

Ord(c) == OrdTable[c]

\* Python's a < b on str.
RECURSIVE StrLess(_, _)
StrLess(a, b) ==
    IF b = "" THEN FALSE
    ELSE IF a = "" THEN TRUE
    ELSE IF Head(a) # Head(b) THEN Ord(Head(a)) < Ord(Head(b))
    ELSE StrLess(Tail(a), Tail(b))

UpperLetters == "ABCDEFGHIJKLMNOPQRSTUVWXYZ"
LowerLetters == "abcdefghijklmnopqrstuvwxyz"

\* Each character folded as re.IGNORECASE folds it (str.lower on ASCII).
FoldTable ==
    [c \in {Char(Alphabet, i) : i \in 1..Len(Alphabet)} |->
        IF \E i \in 1..Len(UpperLetters) : Char(UpperLetters, i) = c
        THEN Char(LowerLetters, CHOOSE i \in 1..Len(UpperLetters) : Char(UpperLetters, i) = c)
        ELSE c]

LowerChar(c) == FoldTable[c]

RECURSIVE Lower(_)
Lower(s) == IF s = "" THEN "" ELSE LowerChar(Head(s)) \o Lower(Tail(s))

StartsWith(s, p) == Len(s) >= Len(p) /\ SubSeq(s, 1, Len(p)) = p
EndsWith(s, p) == Len(s) >= Len(p) /\ SubSeq(s, Len(s) - Len(p) + 1, Len(s)) = p

\* Python's `sub in s`.
Contains(s, sub) ==
    \E i \in 1..(Len(s) - Len(sub) + 1) : SubSeq(s, i, i + Len(sub) - 1) = sub

\* str.lstrip(chars) for a single character: every leading occurrence goes.
RECURSIVE LStrip(_, _)
LStrip(s, c) == IF s # "" /\ Head(s) = c THEN LStrip(Tail(s), c) ELSE s

RECURSIVE RStrip(_, _)
RStrip(s, c) ==
    IF s # "" /\ Char(s, Len(s)) = c THEN RStrip(SubSeq(s, 1, Len(s) - 1), c) ELSE s

\* str.strip() on strings whose only whitespace is the space.
Strip(s) == RStrip(LStrip(s, " "), " ")

\* re.compile(rf"^{prefix}.*{suffix}$", re.IGNORECASE).match(name), prefix and
\* suffix literal (re.escape): the two literals may not overlap in name.
MatchPrefixSuffix(name, prefix, suffix) ==
    /\ Len(name) >= Len(prefix) + Len(suffix)
    /\ Lower(SubSeq(name, 1, Len(prefix))) = Lower(prefix)
    /\ Lower(SubSeq(name, Len(name) - Len(suffix) + 1, Len(name))) = Lower(suffix)

\* re.compile(rf"^{literal}$", re.IGNORECASE).match(name)
MatchExact(name, literal) == Lower(name) = Lower(literal)

(***************************************************************************)
(* find_release                                                            *)
(***************************************************************************)
MaxReleases == 3

\* <<created_at, published_at>> of a release; 0 is an absent (null) field.
Stamps == {<<1, 2>>, <<2, 1>>, <<0, 1>>}

\* The tag of --tag that no release carries.
MissingTag == MaxReleases + 2

\* A release of the feed at position i: tags are unique, so tag_name = i.
ReleaseAt(i, pre, dr, st) ==
    [tag_name |-> i, prerelease |-> pre, draft |-> dr,
     created_at |-> st[1], published_at |-> st[2]]

Feeds ==
    UNION {
        { [i \in 1..n |-> ReleaseAt(i, f[i][1], f[i][2], f[i][3])] :
            f \in [1..n -> BOOLEAN \X BOOLEAN \X Stamps] }
        : n \in 0..MaxReleases }

\* key=lambda r: r.get("created_at") or r.get("published_at")
SortKey(r) == IF r.created_at # 0 THEN r.created_at ELSE r.published_at

\* list.sort(key=..., reverse=True): descending, equal keys keep their order.
InsertDescUnstable(s, r) ==
    LET n == Cardinality({i \in 1..Len(s) : SortKey(s[i]) > SortKey(r)})
    IN  SubSeq(s, 1, n) \o <<r>> \o SubSeq(s, n + 1, Len(s))

InsertDesc(s, r) ==
    LET n == Cardinality({i \in 1..Len(s) : SortKey(s[i]) >= SortKey(r)})
    IN  SubSeq(s, 1, n) \o <<r>> \o SubSeq(s, n + 1, Len(s))

RECURSIVE SortDesc(_)
SortDesc(s) ==
    IF s = <<>> THEN <<>>
    ELSE InsertDesc(SortDesc(SubSeq(s, 1, Len(s) - 1)), s[Len(s)])

CandidatesKeepDrafts(rels, a) ==
    LET Keep(r) == IF a THEN r.prerelease ELSE ~r.prerelease
    IN  SelectSeq(rels, Keep)

\* The list comprehensions of lines 75-78.
Candidates(rels, a) ==
    LET Keep(r) == IF a THEN r.prerelease /\ ~r.draft ELSE ~r.prerelease /\ ~r.draft
    IN  SelectSeq(rels, Keep)

\* GET /releases/tags/{tag}: the published release carrying the tag, or 404
\* (GitHub serves no draft under this endpoint).
HttpReleaseByTag(rels, t) ==
    LET Hit(r) == r.tag_name = t /\ ~r.draft
    IN  SelectSeq(rels, Hit)

find_release(prev, a, t, rels) ==
    IF t # 0
    THEN LET hit == HttpReleaseByTag(rels, t)
         IN  IF hit = <<>> THEN [status |-> "NotFound", release |-> <<>>]
             ELSE [status |-> "ok", release |-> <<hit[1]>>]
    ELSE LET candidates == SortDesc(Candidates(rels, a))
             idx == IF prev THEN 2 ELSE 1
         IN  IF candidates = <<>>
             THEN [status |-> "NoCandidates", release |-> <<>>]
             ELSE IF idx > Len(candidates)
             THEN [status |-> "InsufficientHistory", release |-> <<>>]
             ELSE [status |-> "ok", release |-> <<candidates[idx]>>]

IdleR ==
    /\ releases = <<>> /\ previous = FALSE /\ alpha = FALSE /\ tag = 0
    /\ rstatus = "unused" /\ found = <<>>
IdleA == assets = <<>> /\ platform = "" /\ astatus = "unused" /\ picked = <<>>
IdleI ==
    /\ files = {} /\ images = <<>> /\ board = "" /\ tag_name = "" /\ ipc = "unused"
    /\ resolved = <<>> /\ chosen_path = <<>> /\ user_in = ""

IdleM ==
    /\ zips = <<>> /\ dirs = <<>> /\ cache0 = <<>> /\ last_run = <<>> /\ runs = 0
    /\ pc = "unused" /\ change_mode = FALSE /\ dry_run = FALSE /\ asset_name = ""
    /\ downloaded = FALSE /\ extracted = FALSE /\ chosen = 0
    /\ rc1 = <<>> /\ rc2 = <<>> /\ executed = <<>> /\ exitCode = <<>>

InitRelease ==
    /\ releases \in Feeds
    /\ previous \in BOOLEAN
    /\ alpha \in BOOLEAN
    /\ tag \in {0, 1, MissingTag}
    /\ rstatus = "idle"
    /\ found = <<>>
    /\ IdleA /\ IdleI /\ IdleM

FindRelease ==
    /\ rstatus = "idle"
    /\ LET res == find_release(previous, alpha, tag, releases)
       IN  rstatus' = res.status /\ found' = res.release
    /\ UNCHANGED <<releases, previous, alpha, tag, varsA, varsI, varsM>>

NextRelease == FindRelease

SpecRelease == InitRelease /\ [][NextRelease]_vars

(***************************************************************************)
(* pick_asset_for_platform                                                 *)
(***************************************************************************)
MaxAssets == 3

SUPPORTED_PLATFORMS == {"esp32", "esp32s3", "nrf52", "rp2040"}

AssetNames ==
    {"firmware-esp32s3-2.7.zip", "Firmware-ESP32S3-2.7-debug.ZIP",
     "firmware-esp32-2.7.zip", "firmware-nrf52840-2.7.zip",
     "firmware-esp32s3-2.7.json"}

AssetSizes == {100, 500}

AssetLists ==
    UNION { [1..n -> [name : AssetNames, size : AssetSizes]] : n \in 0..MaxAssets }

\* pat.match(a.get("name", "")) of lines 89-90.
IsPlatformBundle(name, plat) ==
    MatchPrefixSuffix(name, "firmware-" \o plat \o "-", ".zip")

InsertBySizeAsc(s, a) ==
    LET n == Cardinality({i \in 1..Len(s) : s[i].size <= a.size})
    IN  SubSeq(s, 1, n) \o <<a>> \o SubSeq(s, n + 1, Len(s))

\* matches.sort(key=lambda a: a.get("size", 0), reverse=True), one insertion.
InsertBySizeDesc(s, a) ==
    LET n == Cardinality({i \in 1..Len(s) : s[i].size >= a.size})
    IN  SubSeq(s, 1, n) \o <<a>> \o SubSeq(s, n + 1, Len(s))

RECURSIVE SortBySizeDesc(_)
SortBySizeDesc(s) ==
    IF s = <<>> THEN <<>>
    ELSE InsertBySizeDesc(SortBySizeDesc(SubSeq(s, 1, Len(s) - 1)), s[Len(s)])

pick_asset_for_platform(as, plat) ==
    LET Match(a) == IsPlatformBundle(a.name, plat)
        matches == SortBySizeDesc(SelectSeq(as, Match))
    IN  IF matches = <<>>
        THEN [status |-> "NoAssetForPlatform", asset |-> <<>>]
        ELSE [status |-> "ok", asset |-> <<matches[1]>>]

InitAsset ==
    /\ assets \in AssetLists
    /\ platform \in SUPPORTED_PLATFORMS
    /\ astatus = "idle"
    /\ picked = <<>>
    /\ IdleR /\ IdleI /\ IdleM

PickAsset ==
    /\ astatus = "idle"
    /\ LET res == pick_asset_for_platform(assets, platform)
       IN  astatus' = res.status /\ picked' = res.asset
    /\ UNCHANGED <<assets, platform, varsR, varsI, varsM>>

NextAsset == PickAsset

SpecAsset == InitAsset /\ [][NextAsset]_vars

(***************************************************************************)
(* list_update_bins, resolve_board_image and the prompt of main            *)
(***************************************************************************)
MaxFiles == 3

\* Files of an extracted bundle, each a path relative to extract_dir.
FilePool ==
    {<<"firmware-t3s3-2.7-update.bin">>,
     <<"firmware-t3s3-v2.7-update.bin">>,
     <<"firmware-t3s3-oled-2.7-update.bin">>,
     <<"firmware-t3s3--update.bin">>,
     <<"Firmware-T3S3-2.7-update.bin">>,
     <<"firmware-tdeck-2.7-update.bin">>,
     <<"firmware-t3s3-update.bin">>,
     <<"sub", "firmware-t3s3-2.7-update.bin">>,
     <<"device-update.sh">>}

Boards == {"", "t3s3", " t3s3 ", "t3"}
Tags == {"", "v", "v2.7", "vv2.7", "v2.8"}

\* What the operator may type at the prompt.
Inputs ==
    {"", "  ", "firmware-t3s3-2.7-update.bin", " firmware-t3s3-v2.7-update.bin ",
     "firmware-tdeck-2.7-update.bin", "FIRMWARE-T3S3-2.7-UPDATE.BIN",
     "firmware-t3s3-*-update.bin"}

\* Path.name
Name(p) == p[Len(p)]

\* Path.__lt__: the parts compared as a list of str.
RECURSIVE PathLess(_, _)
PathLess(p, q) ==
    IF q = <<>> THEN FALSE
    ELSE IF p = <<>> THEN TRUE
    ELSE IF Head(p) # Head(q) THEN StrLess(Head(p), Head(q))
    ELSE PathLess(Tail(p), Tail(q))

\* sorted() of a set of distinct paths.
SortedPaths(ps) ==
    CHOOSE s \in [1..Cardinality(ps) -> ps] :
        \A i, j \in 1..Cardinality(ps) : i < j => PathLess(s[i], s[j])

\* extract_dir.rglob("*-update.bin")
RGlobUpdateBins(fs) == {p \in fs : EndsWith(Name(p), "-update.bin")}

list_update_bins(fs) == SortedPaths(RGlobUpdateBins(fs))

\* version = (tag_name or "").lstrip("v")
Version(t) == LStrip(t, "v")

\* strict.match(p.name), line 124
StrictMatch(name, b, version) ==
    MatchExact(name, "firmware-" \o b \o "-" \o version \o "-update.bin")

\* loose.match(p.name), line 130
LooseMatch(name, b) ==
    MatchPrefixSuffix(name, "firmware-" \o b \o "-", "-update.bin")

FirstLoose(candidates, version) ==
    IF candidates = <<>> THEN <<>> ELSE <<candidates[1]>>

\* Lines 132-141: the choice among the loose candidates.
PickLoose(candidates, version) ==
    LET HasVersion(p) == Contains(Name(p), version)
        withVersion == SelectSeq(candidates, HasVersion)
    IN  IF Len(candidates) = 1 THEN <<candidates[1]>>
        ELSE IF Len(candidates) > 1 /\ version # "" /\ withVersion # <<>>
        THEN <<withVersion[1]>>
        ELSE <<>>

resolve_board_image(imgs, b, t) ==
    LET version == Version(t)
        Strict(p) == StrictMatch(Name(p), b, version)
        strictHits == IF version # "" THEN SelectSeq(imgs, Strict) ELSE <<>>
        Loose(p) == LooseMatch(Name(p), b)
    IN  IF strictHits # <<>> THEN <<strictHits[1]>>
        ELSE PickLoose(SelectSeq(imgs, Loose), version)

InitImage ==
    /\ files \in {fs \in SUBSET FilePool : Cardinality(fs) <= MaxFiles}
    /\ board \in Boards
    /\ tag_name \in Tags
    /\ images = <<>>
    /\ ipc = "list"
    /\ resolved = <<>>
    /\ chosen_path = <<>>
    /\ user_in = ""
    /\ IdleR /\ IdleA /\ IdleM

\* images = list_update_bins(outdir), line 234
ListUpdateBins ==
    /\ ipc = "list"
    /\ IF RGlobUpdateBins(files) = {}
       THEN ipc' = "NoImagesFound" /\ images' = <<>>
       ELSE ipc' = "select" /\ images' = list_update_bins(files)
    /\ UNCHANGED <<files, board, tag_name, resolved, chosen_path, user_in, varsR, varsA, varsM>>

\* Lines 236-242.
SelectByBoard ==
    /\ ipc = "select"
    /\ LET res == IF board # ""
                  THEN resolve_board_image(images, Strip(board), tag_name)
                  ELSE <<>>
       IN  /\ resolved' = res
           /\ chosen_path' = res
           /\ ipc' = IF res = <<>> THEN "prompt" ELSE "ready"
    /\ UNCHANGED <<files, images, board, tag_name, user_in, varsR, varsA, varsM>>

\* One pass of the while loop of lines 247-256.
Prompt(raw) ==
    /\ ipc = "prompt"
    /\ user_in' = Strip(raw)
    /\ LET Same(p) == Name(p) = Strip(raw)
           matches == SelectSeq(images, Same)
       IN  IF Strip(raw) # "" /\ Len(matches) = 1
           THEN chosen_path' = <<matches[1]>> /\ ipc' = "ready"
           ELSE UNCHANGED <<chosen_path, ipc>>
    /\ UNCHANGED <<files, images, board, tag_name, resolved, varsR, varsA, varsM>>

PromptStep == \E raw \in Inputs : Prompt(raw)

NextImage == ListUpdateBins \/ SelectByBoard \/ PromptStep

SpecImage == InitImage /\ [][NextImage]_vars

(***************************************************************************)
(* main: cache paths, download, extraction, prepare and flash              *)
(***************************************************************************)
MaxRuns == 2

\* Chunks r.read(chunk) delivers before it returns b"".
ZipChunks == 2

\* Assets a run may select (both of one platform and version).
RunAssets == {"firmware-esp32-2.7.aaa.zip", "firmware-esp32-2.7.bbb.zip"}

\* Members of a bundle ZIP in archive order; extractall writes them in turn.
Members == <<"firmware-t3s3-2.7-update.bin", "device-update.sh", "firmware-tdeck-2.7-update.bin">>

\* Exit statuses of device-update.sh as subprocess.run reports them
\* (negative: killed by that signal).
ReturnCodes == {0, 1, 5, -9}

\* str.replace(old, new)
RECURSIVE Replace(_, _, _)
Replace(s, old, new) ==
    IF Len(s) < Len(old) THEN s
    ELSE IF SubSeq(s, 1, Len(old)) = old
         THEN new \o Replace(SubSeq(s, Len(old) + 1, Len(s)), old, new)
         ELSE Head(s) \o Replace(Tail(s), old, new)

\* str.rfind(".") (0: not found)
LastDot(name) ==
    LET dots == {i \in 1..Len(name) : Char(name, i) = "."}
    IN  IF dots = {} THEN 0 ELSE CHOOSE i \in dots : \A j \in dots : j <= i

\* PurePath.suffix
Suffix(name) ==
    LET i == LastDot(name)
    IN  IF 1 < i /\ i < Len(name) THEN SubSeq(name, i, Len(name)) ELSE ""

\* PurePath.with_suffix(suffix), on the path's last part
WithSuffix(name, suffix) ==
    SubSeq(name, 1, Len(name) - Len(Suffix(name))) \o suffix

\* outdir = Path(args.output_dir).resolve() / asset_name.replace(".zip", "")
OutdirName(a) == Replace(a, ".zip", "")

\* zip_path = outdir.with_suffix(".zip")
ZipName(a) == WithSuffix(OutdirName(a), ".zip")

ZipPaths == {ZipName(a) : a \in RunAssets}
DirPaths == {OutdirName(a) : a \in RunAssets}

NoZip == [exists |-> FALSE, chunks |-> 0, of |-> ""]
WholeZip(a) == [exists |-> TRUE, chunks |-> ZipChunks, of |-> a]
NoDir == [exists |-> FALSE, n |-> 0, trunc |-> FALSE, from |-> "", exec |-> FALSE]
WholeDir(a, x) ==
    [exists |-> TRUE, n |-> Len(Members), trunc |-> FALSE, from |-> a, exec |-> x]

\* Member i of the bundle is a file of directory d: written whole, or cut
\* short by the failure that ended the extraction.
Present(d, i) == d.exists /\ (i <= d.n \/ (i = d.n + 1 /\ d.trunc))

IsScript(i) == Members[i] = "device-update.sh"
IsImage(i) == EndsWith(Members[i], "-update.bin")

ZipIsNeverCached(zs, a) == FALSE

\* zip_path.exists(), line 212
ZipExists(zs, a) == zs[ZipName(a)].exists

\* outdir.exists(), line 219
DirExists(ds, a) == ds[OutdirName(a)].exists

\* sys.exit(n): the exit status the parent sees.
ExitStatus(n) == n % 256

runIgnoringDryRun(cmd, dry, outcome) == [rc |-> outcome, executed |-> <<cmd>>]

\* run(cmd, env, dry_run, verbose), lines 143-149; outcome is what the
\* subprocess would return.
run(cmd, dry, outcome) ==
    IF dry THEN [rc |-> 0, executed |-> <<>>]
    ELSE [rc |-> outcome, executed |-> <<cmd>>]

AbortsOnSignalOnly(rc) == rc < 0

\* if rc1 != 0, line 277
PrepareFailed(rc) == rc # 0

Command(step) == [step |-> step, image |-> chosen, dir |-> OutdirName(asset_name)]

\* A cache directory as an operator may hand it over: any of the ZIPs and
\* extracted directories, each whole, or missing.
InitMain ==
    /\ zips \in [ZipPaths -> {NoZip} \cup {WholeZip(a) : a \in RunAssets}]
    /\ \A z \in ZipPaths : zips[z].exists => ZipName(zips[z].of) = z
    /\ dirs \in [DirPaths -> {NoDir} \cup {WholeDir(a, x) : a \in RunAssets, x \in BOOLEAN}]
    /\ \A d \in DirPaths : dirs[d].exists => OutdirName(dirs[d].from) = d
    /\ cache0 = <<zips, dirs>>
    /\ last_run = <<>>
    /\ runs = 1
    /\ pc = "start"
    /\ change_mode \in BOOLEAN
    /\ dry_run \in BOOLEAN
    /\ asset_name = ""
    /\ downloaded = FALSE /\ extracted = FALSE /\ chosen = 0
    /\ rc1 = <<>> /\ rc2 = <<>> /\ executed = <<>> /\ exitCode = <<>>
    /\ IdleR /\ IdleA /\ IdleI

Exit(code) == pc' = "done" /\ exitCode' = <<code>>

\* Lines 172-191: the serial port and esptool checks.
Configure ==
    /\ pc = "start"
    /\ \E port_set, esptool_found \in BOOLEAN :
        IF ~port_set THEN Exit(2)
        ELSE IF ~esptool_found THEN Exit(3)
        ELSE pc' = "resolve" /\ UNCHANGED exitCode
    /\ UNCHANGED <<varsO, varsC, cache0, last_run, runs, change_mode, dry_run, asset_name,
                   downloaded, extracted, chosen, rc1, rc2, executed>>

\* Lines 194-203: a release and its bundle are found, or SystemExit(message).
ResolveAsset ==
    /\ pc = "resolve"
    /\ \/ Exit(1) /\ UNCHANGED asset_name
       \/ \E a \in RunAssets :
            asset_name' = a /\ pc' = "download" /\ UNCHANGED exitCode
    /\ UNCHANGED <<varsO, varsC, cache0, last_run, runs, change_mode, dry_run,
                   downloaded, extracted, chosen, rc1, rc2, executed>>

\* Lines 212-216, cached branch.
DownloadCached ==
    /\ pc = "download"
    /\ ZipExists(zips, asset_name)
    /\ pc' = "extract"
    /\ UNCHANGED <<varsO, varsC, cache0, last_run, runs, change_mode, dry_run, asset_name,
                   downloaded, extracted, chosen, rc1, rc2, executed, exitCode>>

\* Lines 212-214 and 61-64: urlopen raises, or open(dest, "wb") creates the file.
DownloadOpen ==
    /\ pc = "download"
    /\ ~ZipExists(zips, asset_name)
    /\ downloaded' = TRUE
    /\ \/ Exit(1) /\ UNCHANGED zips
       \/ /\ zips' = [zips EXCEPT ![ZipName(asset_name)] =
                        [exists |-> TRUE, chunks |-> 0, of |-> asset_name]]
          /\ pc' = "downloading" /\ UNCHANGED exitCode
    /\ UNCHANGED <<varsO, dirs, cache0, last_run, runs, change_mode, dry_run, asset_name,
                   extracted, chosen, rc1, rc2, executed>>

\* Lines 65-69: one chunk read and written, or the empty read that ends the loop.
DownloadChunk ==
    /\ pc = "downloading"
    /\ LET z == ZipName(asset_name)
       IN  IF zips[z].chunks < ZipChunks
           THEN /\ zips' = [zips EXCEPT ![z].chunks = @ + 1]
                /\ UNCHANGED pc
           ELSE /\ pc' = "extract"
                /\ UNCHANGED zips
    /\ UNCHANGED <<varsO, dirs, cache0, last_run, runs, change_mode, dry_run, asset_name,
                   downloaded, extracted, chosen, rc1, rc2, executed, exitCode>>

\* r.read or f.write raises (connection lost, disk full, interrupt): the
\* file stays as far as it was written.
DownloadFails ==
    /\ pc = "downloading"
    /\ Exit(1)
    /\ UNCHANGED <<varsO, varsC, cache0, last_run, runs, change_mode, dry_run, asset_name,
                   downloaded, extracted, chosen, rc1, rc2, executed>>

\* Lines 219-226, cached branch.
ExtractCached ==
    /\ pc = "extract"
    /\ DirExists(dirs, asset_name)
    /\ pc' = "locate"
    /\ UNCHANGED <<varsO, varsC, cache0, last_run, runs, change_mode, dry_run, asset_name,
                   downloaded, extracted, chosen, rc1, rc2, executed, exitCode>>

\* Lines 219-223: mkdir, then ZipFile(zip_path), which raises BadZipFile on a
\* file cut short.
ExtractOpen ==
    /\ pc = "extract"
    /\ ~DirExists(dirs, asset_name)
    /\ extracted' = TRUE
    /\ dirs' = [dirs EXCEPT ![OutdirName(asset_name)] =
                  [exists |-> TRUE, n |-> 0, trunc |-> FALSE,
                   from |-> zips[ZipName(asset_name)].of, exec |-> FALSE]]
    /\ IF zips[ZipName(asset_name)].chunks < ZipChunks
       THEN Exit(1)
       ELSE pc' = "extracting" /\ UNCHANGED exitCode
    /\ UNCHANGED <<varsO, zips, cache0, last_run, runs, change_mode, dry_run, asset_name,
                   downloaded, chosen, rc1, rc2, executed>>

\* Line 224: extractall writes the next member, or has written them all.
ExtractMember ==
    /\ pc = "extracting"
    /\ LET d == OutdirName(asset_name)
       IN  IF dirs[d].n < Len(Members)
           THEN /\ dirs' = [dirs EXCEPT ![d].n = @ + 1]
                /\ UNCHANGED pc
           ELSE /\ pc' = "locate"
                /\ UNCHANGED dirs
    /\ UNCHANGED <<varsO, zips, cache0, last_run, runs, change_mode, dry_run, asset_name,
                   downloaded, extracted, chosen, rc1, rc2, executed, exitCode>>

\* extractall raises (disk full, interrupt) between two members or while
\* writing one, which is then left cut short.
ExtractFails ==
    /\ pc = "extracting"
    /\ dirs[OutdirName(asset_name)].n < Len(Members)
    /\ \E cut \in BOOLEAN :
        dirs' = [dirs EXCEPT ![OutdirName(asset_name)].trunc = cut]
    /\ Exit(1)
    /\ UNCHANGED <<varsO, zips, cache0, last_run, runs, change_mode, dry_run, asset_name,
                   downloaded, extracted, chosen, rc1, rc2, executed>>

\* Lines 229-234: find_device_update_sh, chmod, list_update_bins.
Locate ==
    /\ pc = "locate"
    /\ LET d == OutdirName(asset_name)
       IN  IF ~\E i \in 1..Len(Members) : IsScript(i) /\ Present(dirs[d], i)
           THEN Exit(1) /\ UNCHANGED dirs
           ELSE /\ dirs' = [dirs EXCEPT ![d].exec = TRUE]
                /\ IF ~\E i \in 1..Len(Members) : IsImage(i) /\ Present(dirs[d], i)
                   THEN Exit(1)
                   ELSE pc' = "select" /\ UNCHANGED exitCode
    /\ UNCHANGED <<varsO, zips, cache0, last_run, runs, change_mode, dry_run, asset_name,
                   downloaded, extracted, chosen, rc1, rc2, executed>>

\* Lines 236-270: one of the listed images becomes chosen_path, by the board
\* or at the prompt; the operator confirms.
SelectImage ==
    /\ pc = "select"
    /\ \E i \in 1..Len(Members) :
        /\ IsImage(i) /\ Present(dirs[OutdirName(asset_name)], i)
        /\ chosen' = i
    /\ pc' = "prepare"
    /\ UNCHANGED <<varsO, varsC, cache0, last_run, runs, change_mode, dry_run, asset_name,
                   downloaded, extracted, rc1, rc2, executed, exitCode>>

\* Lines 273-279: the change-mode step.
Prepare ==
    /\ pc = "prepare"
    /\ change_mode
    /\ \E outcome \in ReturnCodes :
        LET r == run(Command("change-mode"), dry_run, outcome)
        IN  /\ rc1' = <<r.rc>>
            /\ executed' = executed \o r.executed
            /\ IF PrepareFailed(r.rc)
               THEN Exit(ExitStatus(r.rc))
               ELSE pc' = "flash" /\ UNCHANGED exitCode
    /\ UNCHANGED <<varsO, varsC, cache0, last_run, runs, change_mode, dry_run, asset_name,
                   downloaded, extracted, chosen, rc2>>

\* Lines 280-282.
SkipPrepare ==
    /\ pc = "prepare"
    /\ ~change_mode
    /\ pc' = "flash"
    /\ UNCHANGED <<varsO, varsC, cache0, last_run, runs, change_mode, dry_run, asset_name,
                   downloaded, extracted, chosen, rc1, rc2, executed, exitCode>>

\* Lines 285-293: the flash step; main returns (status 0) or sys.exit(rc2).
Flash ==
    /\ pc = "flash"
    /\ \E outcome \in ReturnCodes :
        LET r == run(Command("flash"), dry_run, outcome)
        IN  /\ rc2' = <<r.rc>>
            /\ executed' = executed \o r.executed
            /\ Exit(ExitStatus(r.rc))
    /\ UNCHANGED <<varsO, varsC, cache0, last_run, runs, change_mode, dry_run, asset_name,
                   downloaded, extracted, chosen, rc1>>

\* The script is started again on the same cache directory.
NewRun ==
    /\ pc = "done"
    /\ runs < MaxRuns
    /\ runs' = runs + 1
    /\ last_run' = <<[exit |-> exitCode[1], asset |-> asset_name]>>
    /\ cache0' = <<zips, dirs>>
    /\ pc' = "start"
    /\ change_mode' \in BOOLEAN
    /\ dry_run' \in BOOLEAN
    /\ asset_name' = ""
    /\ downloaded' = FALSE /\ extracted' = FALSE /\ chosen' = 0
    /\ rc1' = <<>> /\ rc2' = <<>> /\ executed' = <<>> /\ exitCode' = <<>>
    /\ UNCHANGED <<varsO, varsC>>

NextMain ==
    \/ Configure \/ ResolveAsset
    \/ DownloadCached \/ DownloadOpen \/ DownloadChunk \/ DownloadFails
    \/ ExtractCached \/ ExtractOpen \/ ExtractMember \/ ExtractFails
    \/ Locate \/ SelectImage \/ Prepare \/ SkipPrepare \/ Flash
    \/ NewRun

SpecMain == InitMain /\ [][NextMain]_vars

(***************************************************************************)
(* Properties of find_release                                              *)
(***************************************************************************)
Returned == found[1]

\* C3 as stated: whatever the channel, previous and explicit-tag arguments,
\* a returned release is not a draft and its prerelease flag is the channel's.
C3_NeverDraftNorWrongChannel ==
    rstatus = "ok" => ~Returned.draft /\ Returned.prerelease = alpha

\* C3 amended: without an explicit tag a returned release is not a draft and
\* its prerelease flag is the channel's; with an explicit tag the release
\* carrying that tag is returned, whatever the channel asked for.
C3_ChannelUnlessTagged ==
    rstatus = "ok" =>
        /\ tag = 0 => ~Returned.draft /\ Returned.prerelease = alpha
        /\ tag # 0 => Returned.tag_name = tag

\* The channel filter had a draft and a release of the other channel to drop.
C3_Witness ==
    /\ rstatus = "ok" /\ tag = 0 /\ alpha
    /\ \E i, j \in 1..Len(releases) :
        /\ releases[i].draft /\ releases[i].prerelease
        /\ ~releases[j].prerelease /\ ~releases[j].draft

\* The feed positions eligible for the channel.
Eligible == {i \in 1..Len(releases) : ~releases[i].draft /\ releases[i].prerelease = alpha}

\* Position i ranks before position j: a later timestamp, or the same
\* timestamp and earlier in the feed.
RanksBefore(i, j) ==
    \/ SortKey(releases[i]) > SortKey(releases[j])
    \/ SortKey(releases[i]) = SortKey(releases[j]) /\ i < j

\* C4: without an explicit tag, the release returned is the eligible one with
\* exactly idx eligible releases ranked before it (idx 0, or 1 with previous);
\* NoCandidates iff nothing is eligible, InsufficientHistory iff previous is
\* asked and exactly one release is eligible.
C4_RankedSelection ==
    (tag = 0 /\ rstatus # "idle") =>
        /\ rstatus = "NoCandidates" <=> Eligible = {}
        /\ rstatus = "InsufficientHistory" <=> (previous /\ Cardinality(Eligible) = 1)
        /\ rstatus = "ok" =>
            \E k \in Eligible :
                /\ Returned = releases[k]
                /\ Cardinality({j \in Eligible : RanksBefore(j, k)})
                       = IF previous THEN 1 ELSE 0

\* previous picked the later of two eligible releases with equal timestamps,
\* both newer than an eligible release that comes first in the feed.
C4_Witness ==
    /\ tag = 0 /\ rstatus = "ok" /\ previous
    /\ Len(releases) = 3 /\ Eligible = {1, 2, 3}
    /\ SortKey(releases[1]) < SortKey(releases[2])
    /\ SortKey(releases[2]) = SortKey(releases[3])
    /\ Returned = releases[3]

(***************************************************************************)
(* Properties of pick_asset_for_platform                                   *)
(***************************************************************************)
\* name is firmware-<plat>-*.zip, case-insensitively: the prefix, any m
\* characters, the suffix.
IsBundleName(name, plat) ==
    LET pre == Lower("firmware-" \o plat \o "-")
        n == Lower(name)
    IN  \E m \in 0..(Len(n) - Len(pre)) :
          \E mid \in {SubSeq(n, Len(pre) + 1, Len(pre) + m)} :
            n = pre \o mid \o ".zip"

Matching == {i \in 1..Len(assets) : IsBundleName(assets[i].name, platform)}

\* C5: NoAssetForPlatform iff no asset name matches firmware-<platform>-*.zip;
\* otherwise the asset returned matches and no matching asset is larger.
C5_LargestMatchingAsset ==
    astatus # "idle" =>
        /\ astatus = "NoAssetForPlatform" <=> Matching = {}
        /\ Matching # {} =>
            /\ astatus = "ok"
            /\ \E i \in Matching : picked[1] = assets[i]
            /\ \A i \in Matching : picked[1].size >= assets[i].size

\* The largest matching asset was not the first one, and a non-matching
\* asset was in the list.
C5_Witness ==
    /\ astatus = "ok"
    /\ \E i, j \in Matching : i < j /\ assets[i].size < assets[j].size
    /\ picked[1].size > assets[1].size
    /\ Matching # 1..Len(assets)

(***************************************************************************)
(* Properties of resolve_board_image and the prompt                        *)
(***************************************************************************)
\* resolve_board_image has been called for a supplied board.
BoardResolved == ipc \in {"prompt", "ready"} /\ board # ""

\* The release tag with one leading v stripped.
VersionOneV(t) == IF StartsWith(t, "v") THEN Tail(t) ELSE t

\* firmware-<board>-<version>-update.bin
StrictName(b, version) == "firmware-" \o b \o "-" \o version \o "-update.bin"

\* C6 as stated: with version the tag less one leading v, if an image is named
\* firmware-<board>-<version>-update.bin (case-insensitively), an image of
\* that name is returned.
C6_StrictNameWins ==
    BoardResolved =>
        LET expected == Lower(StrictName(Strip(board), VersionOneV(tag_name)))
        IN  (\E i \in 1..Len(images) : Lower(Name(images[i])) = expected)
                => resolved # <<>> /\ Lower(Name(resolved[1])) = expected

\* name is firmware-<b>-*-update.bin, case-insensitively.
IsLooseName(name, b) ==
    LET pre == Lower("firmware-" \o b \o "-")
        n == Lower(name)
    IN  \E m \in 0..(Len(n) - Len(pre)) :
          \E mid \in {SubSeq(n, Len(pre) + 1, Len(pre) + m)} :
            n = pre \o mid \o "-update.bin"

LooseSet == {i \in 1..Len(images) : IsLooseName(Name(images[i]), Strip(board))}

StrictFound ==
    /\ Version(tag_name) # ""
    /\ \E i \in 1..Len(images) :
        Lower(Name(images[i])) = Lower(StrictName(Strip(board), Version(tag_name)))

Min(S) == CHOOSE x \in S : \A y \in S : x <= y

\* C7: when the strict phase finds nothing, one loose candidate is returned as
\* it is; of several, with a non-empty version, the first whose name contains
\* the version; otherwise nothing.  Nothing but a loose candidate is returned.
C7_LooseDecision ==
    BoardResolved =>
        LET withVersion == {i \in LooseSet : Contains(Name(images[i]), Version(tag_name))}
        IN  /\ ~StrictFound =>
                resolved =
                    IF Cardinality(LooseSet) = 1 THEN <<images[Min(LooseSet)]>>
                    ELSE IF /\ Cardinality(LooseSet) > 1
                            /\ Version(tag_name) # ""
                            /\ withVersion # {}
                         THEN <<images[Min(withVersion)]>>
                    ELSE <<>>
            /\ resolved # <<>> => \E i \in LooseSet : resolved[1] = images[i]

\* Several loose candidates, no strict match, and the one returned is not the
\* first of them.
C7_Witness ==
    /\ BoardResolved /\ ~StrictFound
    /\ Cardinality(LooseSet) > 1
    /\ resolved # <<>> /\ resolved[1] # images[Min(LooseSet)]

\* C8 as stated: the prompt ends as soon as the input is the filename of a
\* listed image, with an image of that name chosen, and on no other input.
C8_PromptEndsOnListedName ==
    /\ ipc = "prompt" => \A i \in 1..Len(images) : Name(images[i]) # user_in
    /\ (ipc = "ready" /\ resolved = <<>>) =>
            chosen_path # <<>> /\ Name(chosen_path[1]) = user_in

(***************************************************************************)
(* Properties of main                                                      *)
(***************************************************************************)
FlashInvoked == \E k \in 1..Len(executed) : executed[k].step = "flash"

\* C1: once the change-mode step has returned a non-zero status N, the flash
\* step is not invoked and the run has ended in failure, with exit code N
\* when N is an exit status (1..255).
C1_FailedPrepareAborts ==
    (rc1 # <<>> /\ rc1[1] # 0) =>
        /\ pc = "done"
        /\ rc2 = <<>> /\ ~FlashInvoked
        /\ exitCode # <<0>>
        /\ rc1[1] \in 1..255 => exitCode = rc1

\* The change-mode step was executed and returned 5.
C1_Witness ==
    /\ change_mode /\ ~dry_run
    /\ rc1 = <<5>> /\ exitCode = <<5>>
    /\ executed # <<>> /\ executed[1].step = "change-mode"

\* C2: in a dry run no command is executed, every command counts as returning
\* 0, and once the prepare or flash step has been taken the run ends with the
\* flash step taken and exit code 0.
C2_DryRunExecutesNothing ==
    dry_run =>
        /\ executed = <<>>
        /\ rc1 \in {<<>>, <<0>>}
        /\ rc2 \in {<<>>, <<0>>}
        /\ (pc = "done" /\ (rc1 # <<>> \/ rc2 # <<>>)) =>
                rc2 = <<0>> /\ exitCode = <<0>>

\* A dry run with the prepare step requested went through both steps.
C2_Witness ==
    /\ dry_run /\ change_mode /\ pc = "done"
    /\ rc1 = <<0>> /\ rc2 = <<0>> /\ exitCode = <<0>>

Selected == asset_name # ""
ZipAtStart == cache0[1][ZipName(asset_name)].exists
DirAtStart == cache0[2][OutdirName(asset_name)].exists

\* This run repeats a successful one: same asset, the last run exited 0.
Repeat ==
    /\ last_run # <<>> /\ last_run[1].exit = 0
    /\ Selected /\ last_run[1].asset = asset_name

\* C9 as stated: a cache holding the asset's ZIP or its extracted directory
\* means no download; an extracted directory means no extraction; repeating
\* a successful run leaves the cache unchanged.
C9_ZipOrDirSkipsDownload ==
    Selected =>
        /\ (ZipAtStart \/ DirAtStart) => ~downloaded
        /\ DirAtStart => ~extracted
        /\ Repeat => <<zips, dirs>> = cache0

\* C9 amended: a file at the asset's ZIP path means no download (an extracted
\* directory alone does not); an extracted directory means no extraction;
\* repeating a successful run leaves the cache unchanged.
C9_EachStepSkipsItsTarget ==
    Selected =>
        /\ ZipAtStart => ~downloaded
        /\ DirAtStart => ~extracted
        /\ Repeat => <<zips, dirs>> = cache0

\* A successful run was repeated to its end on the cache it left.
C9_Witness ==
    /\ Repeat /\ ZipAtStart /\ DirAtStart
    /\ pc = "done" /\ exitCode = <<0>> /\ ~dry_run /\ FlashInvoked

\* C10: every image handed to the flashing executor lies in a directory into
\* which the whole bundle was extracted.
C10_FlashedFromWholeBundle ==
    \A k \in 1..Len(executed) :
        /\ dirs[executed[k].dir].n = Len(Members)
        /\ ~dirs[executed[k].dir].trunc

====
